---- MODULE Spec2Model ----
(***************************************************************************)
(* Model of scripts/todoist_client.py: the credential resolver             *)
(* (TodoistClient.__init__), the five client methods, load_tasks_from_file *)
(* and the command dispatch of the __main__ block.                         *)
(*                                                                         *)
(* Representation.  A Python str is a sequence of one-character strings    *)
(* ("" is << >>), a Python list is a sequence, and an optional value is a  *)
(* sequence of length at most one: None is << >>, the value v is <<v>>.    *)
(* A dict is a function from its keys.                                     *)
(***************************************************************************)
EXTENDS Integers, Sequences, FiniteSets, TLC

VARIABLES
    environ,      \* os.environ.get("TODOIST_TOKEN"): None or a str
    secrets,      \* /run/secrets: [lower, upper], each None (no file) or the file's text
    payload,      \* what json.load yields for the file named by --file
    args,         \* the argparse namespace
    call,         \* the method call of a program that uses the class directly
    token,        \* self.token
    pc,           \* position of the process
    batch,        \* the list returned by load_tasks_from_file
    idx,          \* position of the for loop over batch (1-based)
    created,      \* the list `created`
    requests,     \* HTTP requests issued so far, in order
    responses,    \* status codes received so far, in order
    stdout,       \* what was printed to standard output
    stderr,       \* diagnostics written to standard error
    raised,       \* the exception that ended the process ("" if none)
    exitCode      \* the process exit code, meaningful when pc = "exit"

vars == <<environ, secrets, payload, args, call, token, pc, batch, idx, created,
          requests, responses, stdout, stderr, raised, exitCode>>

----------------------------------------------------------------------------
(* Bounds *)

\* longest batch file (number of array elements)
MaxBatch == 3

----------------------------------------------------------------------------
(* Python values *)

None == << >>
Some(v) == <<v>>

\* `not x` for x that is None, a str or a list: None and the empty value are falsy
PyNot(x) == IF x = None THEN TRUE ELSE x[1] = << >>

IsSpace(c) == c \in {" ", "\n", "\t"}

RECURSIVE lstrip(_)
lstrip(s) == IF s # << >> /\ IsSpace(Head(s)) THEN lstrip(Tail(s)) ELSE s

RECURSIVE rstrip(_)
rstrip(s) == IF s # << >> /\ IsSpace(s[Len(s)]) THEN rstrip(SubSeq(s, 1, Len(s) - 1)) ELSE s

\* str.strip()
strip(s) == rstrip(lstrip(s))

\* str.split(sep) for a one-character separator
RECURSIVE split(_, _)
split(s, sep) ==
    IF \E i \in 1..Len(s) : s[i] = sep
    THEN LET i == CHOOSE k \in 1..Len(s) : s[k] = sep /\ \A j \in 1..(k - 1) : s[j] # sep
         IN  <<SubSeq(s, 1, i - 1)>> \o split(SubSeq(s, i + 1, Len(s)), sep)
    ELSE <<s>>

\* dict.get(key): None when the key is missing
Get(d, key) == IF key \in DOMAIN d THEN Some(d[key]) ELSE None

----------------------------------------------------------------------------
(* The remote service *)

\* status codes the service answers with
Statuses == {200, 400, 500}

\* resp.json() of the answer to the n-th request: the service assigns the id
ServerJson(n) == [id |-> n]

\* resp.raise_for_status(): TRUE when it raises HTTPError
raise_for_status_5xx(status) == status >= 500 /\ status < 600
raise_for_status_never(status) == FALSE
raise_for_status(status) == status >= 400 /\ status < 600

----------------------------------------------------------------------------
(* TodoistClient *)

\* the file TodoistClient.__init__ reads: the first secret that exists
FirstSecret(files) ==
    IF files.lower # None THEN Some(strip(files.lower[1]))
    ELSE IF files.upper # None THEN Some(strip(files.upper[1]))
    ELSE None

\* self.token after lines 10-17
ResolveToken(env, files) ==
    IF PyNot(env) /\ FirstSecret(files) # None THEN FirstSecret(files) ELSE env

\* the test of line 19
TokenMissing_IsNone(t) == t = None
TokenMissing(t) == PyNot(t)

\* the argument of sys.exit on line 24
CredentialExitCode_Zero == 1 - 1
CredentialExitCode == 1

\* the exit code of a process ended by SystemExit(<str>) or by an uncaught exception
UncaughtExitCode == 1

\* self.headers
Headers(tok) == [Authorization |-> <<"Bearer", tok>>, ContentType |-> "application/json"]

\* a request record: `id` is None for a path without a task id, else Some(task_id);
\* `body` is None for a request without a JSON body
Request(tok, method, path, id, params, body) ==
    [method |-> method, path |-> path, id |-> id, params |-> params, body |-> body,
     headers |-> Headers(tok)]

\* list_tasks: params
ListParams(project_id) ==
    IF ~PyNot(project_id) THEN [project_id |-> project_id[1]] ELSE [k \in {} |-> None]

list_tasks(tok, project_id) ==
    Request(tok, "GET", "/tasks", None, Some(ListParams(project_id)), None)

\* create_task: data
CreateBody(content, project_id, labels, description) ==
    LET keys == {"content", "project_id"}
                \cup (IF ~PyNot(labels) THEN {"labels"} ELSE {})
                \cup (IF ~PyNot(description) THEN {"description"} ELSE {})
        val(k) == CASE k = "content" -> content
                    [] k = "project_id" -> project_id
                    [] k = "labels" -> labels[1]
                    [] k = "description" -> description[1]
    IN  [k \in keys |-> val(k)]

create_task(tok, content, project_id, labels, description) ==
    Request(tok, "POST", "/tasks", None, None,
            Some(CreateBody(content, project_id, labels, description)))

delete_task(tok, task_id) ==
    Request(tok, "DELETE", "/tasks/{task_id}", Some(task_id), None, None)

complete_task(tok, task_id) ==
    Request(tok, "POST", "/tasks/{task_id}/close", Some(task_id), None, None)

\* update_task: data
UpdateBody_Truthy(labels, description) ==
    LET keys == (IF ~PyNot(labels) THEN {"labels"} ELSE {})
                \cup (IF ~PyNot(description) THEN {"description"} ELSE {})
        val(k) == CASE k = "labels" -> labels[1]
                    [] k = "description" -> description[1]
    IN  [k \in keys |-> val(k)]
UpdateBody(labels, description) ==
    LET keys == (IF labels # None THEN {"labels"} ELSE {})
                \cup (IF description # None THEN {"description"} ELSE {})
        val(k) == CASE k = "labels" -> labels[1]
                    [] k = "description" -> description[1]
    IN  [k \in keys |-> val(k)]

update_task(tok, task_id, labels, description) ==
    Request(tok, "POST", "/tasks/{task_id}", Some(task_id), None,
            Some(UpdateBody(labels, description)))

----------------------------------------------------------------------------
(* load_tasks_from_file and the command line *)

\* json.load of the batch file: a JSON array, another JSON value, or no JSON at all
IsJson(p) == p.type # "invalid"
IsList(p) == p.type = "array"

\* a batch element that is a JSON object supports .get; any other value does not
IsObject(e) == e.type = "object"

\* `labels` of the create and update branches (lines 100 and 120)
LabelsArg(flag) == IF ~PyNot(flag) THEN Some(split(flag[1], ",")) ELSE None

\* the flag create-batch finds missing (lines 103-106), "" if none
MissingFlag_Unchecked(a) == ""
MissingFlag(a) ==
    IF PyNot(a.project) THEN "create-batch requires --project"
    ELSE IF PyNot(a.file) THEN "create-batch requires --file"
    ELSE ""

\* the create_task call of the create branch (line 101): description is not passed
CreateCall(tok, a) ==
    create_task(tok, a.content, a.project, LabelsArg(a.labels), None)

\* the create_task call of the batch loop (lines 111-116)
BatchCall_TaskProject(tok, task, project) ==
    create_task(tok, Get(task.fields, "content"), Get(task.fields, "project_id"),
                Get(task.fields, "labels"), Get(task.fields, "description"))
BatchCall(tok, task, project) ==
    create_task(tok, Get(task.fields, "content"), project,
                Get(task.fields, "labels"), Get(task.fields, "description"))

----------------------------------------------------------------------------
(* The process: python todoist_client.py <command> [flags] *)

Commands == {"list", "create", "create-batch", "delete", "complete", "update"}

\* the process ends: an exception propagates out of __main__, or the script returns
Exit(exc, code, diag) ==
    /\ pc' = "exit"
    /\ raised' = exc
    /\ exitCode' = Some(code)
    /\ stderr' = IF diag = "" THEN stderr ELSE Append(stderr, diag)

\* print(json.dumps(v, indent=2))
PrintJson(v) == stdout' = Append(stdout, [json |-> v])

\* print(f"{word} {args.id}")
PrintLine(word, id) == stdout' = Append(stdout, [line |-> <<word, id>>])

\* requests.get / requests.post / requests.delete: the request leaves
Send(req) == requests' = Append(requests, req)

\* client = TodoistClient(), a token is found (lines 10-19, 26-30)
ConstructClient ==
    /\ pc = "init"
    /\ ~TokenMissing(ResolveToken(environ, secrets))
    /\ token' = ResolveToken(environ, secrets)
    /\ pc' = "dispatch"
    /\ UNCHANGED <<environ, secrets, payload, args, call, batch, idx, created,
                   requests, responses, stdout, stderr, raised, exitCode>>

\* client = TodoistClient(), no token is found (lines 10-24)
ConstructExit ==
    /\ pc = "init"
    /\ TokenMissing(ResolveToken(environ, secrets))
    /\ token' = ResolveToken(environ, secrets)
    /\ Exit("SystemExit", CredentialExitCode, "Error: TODOIST_TOKEN not found")
    /\ UNCHANGED <<environ, secrets, payload, args, call, batch, idx, created,
                   requests, responses, stdout>>

\* a client method sends its request and waits for the answer
Issue(req) ==
    /\ Send(req)
    /\ pc' = "await"
    /\ UNCHANGED <<environ, secrets, payload, args, call, token, batch, idx, created,
                   responses, stdout, stderr, raised, exitCode>>

\* line 98
CmdList ==
    /\ pc = "dispatch"
    /\ args.command = "list"
    /\ Issue(list_tasks(token[1], args.project))

\* lines 100-101
CmdCreate ==
    /\ pc = "dispatch"
    /\ args.command = "create"
    /\ Issue(CreateCall(token[1], args))

\* lines 120-121
CmdUpdate ==
    /\ pc = "dispatch"
    /\ args.command = "update"
    /\ Issue(update_task(token[1], args.id, LabelsArg(args.labels), args.description))

\* line 123
CmdDelete ==
    /\ pc = "dispatch"
    /\ args.command = "delete"
    /\ Issue(delete_task(token[1], args.id))

\* line 126
CmdComplete ==
    /\ pc = "dispatch"
    /\ args.command = "complete"
    /\ Issue(complete_task(token[1], args.id))

\* lines 102-108: the checks of create-batch and load_tasks_from_file
CmdCreateBatch ==
    /\ pc = "dispatch"
    /\ args.command = "create-batch"
    /\ IF MissingFlag(args) # ""
       THEN /\ Exit("SystemExit", UncaughtExitCode, MissingFlag(args))
            /\ UNCHANGED <<batch, idx, created>>
       ELSE IF ~IsJson(payload)
       THEN /\ Exit("OSError or JSONDecodeError", UncaughtExitCode, "Traceback")
            /\ UNCHANGED <<batch, idx, created>>
       ELSE IF ~IsList(payload)
       THEN /\ Exit("ValueError", UncaughtExitCode, "Traceback")
            /\ UNCHANGED <<batch, idx, created>>
       ELSE /\ batch' = payload.items
            /\ idx' = 1
            /\ created' = << >>
            /\ pc' = "batch"
            /\ UNCHANGED <<stderr, raised, exitCode>>
    /\ UNCHANGED <<environ, secrets, payload, args, call, token, requests, responses, stdout>>

\* lines 109-116: the next element of the batch is sent
BatchIssue ==
    /\ pc = "batch"
    /\ idx <= Len(batch)
    /\ IsObject(batch[idx])
    /\ Send(BatchCall(token[1], batch[idx], args.project))
    /\ pc' = "await"
    /\ UNCHANGED <<environ, secrets, payload, args, call, token, batch, idx, created,
                   responses, stdout, stderr, raised, exitCode>>

\* lines 112-115: task.get on an element that is no JSON object
BatchBadElement ==
    /\ pc = "batch"
    /\ idx <= Len(batch)
    /\ ~IsObject(batch[idx])
    /\ Exit("AttributeError", UncaughtExitCode, "Traceback")
    /\ UNCHANGED <<environ, secrets, payload, args, call, token, batch, idx, created,
                   requests, responses, stdout>>

\* line 118: the loop is over
BatchPrint ==
    /\ pc = "batch"
    /\ idx > Len(batch)
    /\ PrintJson(created)
    /\ pc' = "exit"
    /\ exitCode' = Some(0)
    /\ UNCHANGED <<environ, secrets, payload, args, call, token, batch, idx, created,
                   requests, responses, stderr, raised>>

\* the answer arrives and raise_for_status raises: nothing catches HTTPError
RespondError(status) ==
    /\ pc = "await"
    /\ raise_for_status(status)
    /\ responses' = Append(responses, status)
    /\ Exit("HTTPError", UncaughtExitCode, "Traceback")
    /\ UNCHANGED <<environ, secrets, payload, args, call, token, batch, idx, created,
                   requests, stdout>>

\* list, create, update: the method returns resp.json(), which is printed
RespondJson(status) ==
    /\ pc = "await"
    /\ args.command \in {"list", "create", "update"}
    /\ ~raise_for_status(status)
    /\ responses' = Append(responses, status)
    /\ PrintJson(ServerJson(Len(requests)))
    /\ pc' = "exit"
    /\ exitCode' = Some(0)
    /\ UNCHANGED <<environ, secrets, payload, args, call, token, batch, idx, created,
                   requests, stderr, raised>>

\* delete, complete: the method returns True and the confirmation is printed
RespondConfirm(status) ==
    /\ pc = "await"
    /\ args.command \in {"delete", "complete"}
    /\ ~raise_for_status(status)
    /\ responses' = Append(responses, status)
    /\ PrintLine(IF args.command = "delete" THEN "Deleted" ELSE "Completed", args.id)
    /\ pc' = "exit"
    /\ exitCode' = Some(0)
    /\ UNCHANGED <<environ, secrets, payload, args, call, token, batch, idx, created,
                   requests, stderr, raised>>

\* create-batch: created.append(...) and the loop goes on
RespondBatch(status) ==
    /\ pc = "await"
    /\ args.command = "create-batch"
    /\ ~raise_for_status(status)
    /\ responses' = Append(responses, status)
    /\ created' = Append(created, ServerJson(Len(requests)))
    /\ idx' = idx + 1
    /\ pc' = "batch"
    /\ UNCHANGED <<environ, secrets, payload, args, call, token, batch,
                   requests, stdout, stderr, raised, exitCode>>

Next ==
    \/ ConstructClient
    \/ ConstructExit
    \/ CmdList
    \/ CmdCreate
    \/ CmdUpdate
    \/ CmdDelete
    \/ CmdComplete
    \/ CmdCreateBatch
    \/ BatchIssue
    \/ BatchBadElement
    \/ BatchPrint
    \/ \E status \in Statuses : RespondError(status)
    \/ \E status \in Statuses : RespondJson(status)
    \/ \E status \in Statuses : RespondConfirm(status)
    \/ \E status \in Statuses : RespondBatch(status)

----------------------------------------------------------------------------
(* Inputs *)

NoSecrets == [lower |-> None, upper |-> None]

NoCall ==
    [method |-> "", content |-> None, project_id |-> None, task_id |-> None,
     labels |-> None, description |-> None]

Object(f) == [type |-> "object", fields |-> f]

\* batch elements: content only; every field; empty optional fields and no content;
\* a JSON number
Elements ==
    { Object([content |-> <<"A">>]),
      Object([content |-> <<"B">>, labels |-> << <<"x">> >>, description |-> <<"D">>]),
      Object([labels |-> << >>, description |-> << >>]),
      [type |-> "number"] }

Batches == UNION { [1..n -> Elements] : n \in 0..MaxBatch }

Unreadable == [type |-> "invalid"]

Payloads ==
    {Unreadable, [type |-> "object"]} \cup { [type |-> "array", items |-> b] : b \in Batches }

ProjectFlags == {None, Some(<< >>), Some(<<"P">>)}
ContentFlags == {None, Some(<<"A">>)}
IdFlags == {None, Some(<<"7">>)}
LabelsFlags == {None, Some(<< >>), Some(<<"a", ",", "b">>)}
DescriptionFlags == {None, Some(<< >>), Some(<<"D">>)}
FileFlags == {None, Some(<< >>), Some(<<"f">>)}

\* the state as the script reaches line 95, for the given inputs; the batch file
\* exists only when --file names it and is read only by create-batch
InitFrom(Envs, Lowers, Uppers, Projects, Contents, Ids, Labels, Descriptions, Files, Loads) ==
    /\ environ \in Envs
    /\ secrets \in [lower : Lowers, upper : Uppers]
    /\ args \in [command : Commands, project : Projects, content : Contents, id : Ids,
                 labels : Labels, description : Descriptions, file : Files]
    /\ payload \in Loads
    /\ (PyNot(args.file) \/ args.command # "create-batch") => payload = Unreadable
    /\ call = NoCall
    /\ token = None
    /\ pc = "init"
    /\ batch = << >>
    /\ idx = 0
    /\ created = << >>
    /\ requests = << >>
    /\ responses = << >>
    /\ stdout = << >>
    /\ stderr = << >>
    /\ raised = ""
    /\ exitCode = None

Init ==
    InitFrom({None, Some(<<"t">>)}, {None}, {None},
             ProjectFlags, ContentFlags, IdFlags, LabelsFlags, DescriptionFlags, FileFlags,
             Payloads)

Spec == Init /\ [][Next]_vars

----------------------------------------------------------------------------
(* Every path of the credential resolver, with a few command lines *)

EnvValues == {None, Some(<< >>), Some(<<" ">>), Some(<<"e">>)}
LowerFiles == {None, Some(<< >>), Some(<<" ", "\n">>), Some(<<" ", "l", "\n">>)}
UpperFiles == {None, Some(<< >>), Some(<<"U">>)}

CredPayloads ==
    { Unreadable, [type |-> "object"] }
    \cup { [type |-> "array", items |-> b] : b \in UNION { [1..n -> Elements] : n \in 0..1 } }

InitCred ==
    InitFrom(EnvValues, LowerFiles, UpperFiles,
             {None, Some(<<"P">>)}, {Some(<<"A">>)}, {Some(<<"7">>)}, {None},
             {Some(<<"D">>)}, {None, Some(<<"f">>)}, CredPayloads)

SpecCred == InitCred /\ [][Next]_vars

----------------------------------------------------------------------------
(* A program that imports the module and calls the methods of a constructed *)
(* TodoistClient itself                                                     *)

Methods == {"list_tasks", "create_task", "delete_task", "complete_task", "update_task"}

LabelLists == {None, Some(<< >>), Some(<< <<"a">> >>), Some(<< <<"a">>, <<"b">> >>)}

Calls ==
    [method : Methods, content : {None, Some(<<"A">>)}, project_id : {None, Some(<<"P">>)},
     task_id : {Some(<<"7">>)}, labels : LabelLists, description : DescriptionFlags]

\* the request the called method builds
MethodRequest(tok, c) ==
    CASE c.method = "list_tasks" -> list_tasks(tok, c.project_id)
      [] c.method = "create_task" ->
            create_task(tok, c.content, c.project_id, c.labels, c.description)
      [] c.method = "delete_task" -> delete_task(tok, c.task_id)
      [] c.method = "complete_task" -> complete_task(tok, c.task_id)
      [] c.method = "update_task" -> update_task(tok, c.task_id, c.labels, c.description)

\* the method is entered and sends its request
MethodCall ==
    /\ pc = "call"
    /\ Send(MethodRequest(token[1], call))
    /\ pc' = "in_method"
    /\ UNCHANGED <<environ, secrets, payload, args, call, token, batch, idx, created,
                   responses, stdout, stderr, raised, exitCode>>

\* the method returns resp.json() or True
MethodReturn(status) ==
    /\ pc = "in_method"
    /\ ~raise_for_status(status)
    /\ responses' = Append(responses, status)
    /\ pc' = "returned"
    /\ UNCHANGED <<environ, secrets, payload, args, call, token, batch, idx, created,
                   requests, stdout, stderr, raised, exitCode>>

\* the method raises HTTPError to its caller
MethodRaise(status) ==
    /\ pc = "in_method"
    /\ raise_for_status(status)
    /\ responses' = Append(responses, status)
    /\ raised' = "HTTPError"
    /\ pc' = "returned"
    /\ UNCHANGED <<environ, secrets, payload, args, call, token, batch, idx, created,
                   requests, stdout, stderr, exitCode>>

NextClient ==
    \/ MethodCall
    \/ \E status \in Statuses : MethodReturn(status)
    \/ \E status \in Statuses : MethodRaise(status)

InitClient ==
    /\ environ = Some(<<"t">>)
    /\ secrets = NoSecrets
    /\ args = [command |-> "", project |-> None, content |-> None, id |-> None,
               labels |-> None, description |-> None, file |-> None]
    /\ payload = Unreadable
    /\ call \in Calls
    /\ token = Some(<<"t">>)
    /\ pc = "call"
    /\ batch = << >>
    /\ idx = 0
    /\ created = << >>
    /\ requests = << >>
    /\ responses = << >>
    /\ stdout = << >>
    /\ stderr = << >>
    /\ raised = ""
    /\ exitCode = None

SpecClient == InitClient /\ [][NextClient]_vars

----------------------------------------------------------------------------
(* Properties *)

\* a non-success answer
IsFailure(status) == status \notin 200..299

SomeFailure == \E i \in 1..Len(responses) : IsFailure(responses[i])

\* the process has a non-empty token
HasToken == token # None /\ token[1] # << >>

\* the exit code of the ended process is not zero
ExitNonZero == exitCode # None /\ exitCode[1] # 0

\* requests[i] is the create-task request for element i of the batch file
IsCreateFor(i) ==
    /\ requests[i].method = "POST"
    /\ requests[i].path = "/tasks"
    /\ requests[i].body # None
    /\ requests[i].body[1].content = Get(payload.items[i].fields, "content")
    /\ requests[i].body[1].project_id = args.project

\* a create-batch command line that passes every check of lines 103-107
GoodBatchInput ==
    /\ args.command = "create-batch"
    /\ args.project # None /\ args.project[1] # << >>
    /\ args.file # None /\ args.file[1] # << >>
    /\ payload.type = "array"

AllObjects == \A i \in 1..Len(payload.items) : payload.items[i].type = "object"

\* C1: create-batch with a token, a (non-empty) --project P and a file holding an
\* array of n objects, every create call succeeding: exactly n create-task requests
\* are issued, one per element in input order, each with project_id P, and the
\* printed array has n entries, entry i being the answer to request i.
C1_BatchInOrder ==
    (pc = "exit" /\ HasToken /\ GoodBatchInput /\ AllObjects /\ ~SomeFailure)
    => /\ Len(requests) = Len(payload.items)
       /\ \A i \in 1..Len(requests) : IsCreateFor(i)
       /\ stdout = << [json |-> [i \in 1..Len(payload.items) |-> ServerJson(i)]] >>
       /\ exitCode = Some(0)

C1_Witness ==
    /\ pc = "exit" /\ GoodBatchInput /\ AllObjects /\ ~SomeFailure
    /\ Len(payload.items) = 3
    /\ payload.items[1] # payload.items[2]
    /\ Len(requests) = 3
    /\ stdout # << >>

\* C2: create-batch where the call for element k is the first to fail: the requests
\* for elements 1..k were issued in order, none is issued after k, no delete request
\* is issued, nothing is printed and the process ends with a non-zero exit code.
C2_BatchStopsAtFirstFailure ==
    (args.command = "create-batch" /\ SomeFailure)
    => LET k == Len(responses)
       IN  /\ IsFailure(responses[k])
           /\ \A i \in 1..(k - 1) : ~IsFailure(responses[i])
           /\ Len(requests) = k
           /\ \A i \in 1..k : IsCreateFor(i)
           /\ \A i \in 1..k : requests[i].method # "DELETE"
           /\ stdout = << >>
           /\ pc = "exit"
           /\ ExitNonZero

C2_Witness ==
    /\ args.command = "create-batch"
    /\ payload.type = "array"
    /\ Len(payload.items) = 3
    /\ Len(responses) = 2
    /\ IsFailure(responses[2])
    /\ Len(requests) = 2
    /\ pc = "exit"

\* C3: a create-batch run with a missing --project, a missing --file or a file whose
\* JSON is not an array issues no HTTP request at any time, and a run that ended in
\* such an input validation error has issued none.
C3_ValidationBeforeNetwork ==
    /\ (/\ args.command = "create-batch"
        /\ (PyNot(args.project) \/ PyNot(args.file) \/ payload.type # "array"))
       => requests = << >>
    /\ (raised \in {"SystemExit", "ValueError"}) => requests = << >>

C3_Witness ==
    /\ pc = "exit"
    /\ HasToken
    /\ args.command = "create-batch"
    /\ payload.type = "object"
    /\ raised = "ValueError"
    /\ requests = << >>

\* C4: whenever an HTTP request has been issued the token is a non-empty string (and
\* the request carries it); when no token is resolved the process has ended at
\* startup with a non-zero exit code and no request, whatever the subcommand.
C4_TokenBeforeRequests ==
    /\ requests # << >>
       => /\ HasToken
          /\ \A i \in 1..Len(requests) :
                requests[i].headers.Authorization = <<"Bearer", token[1]>>
    /\ (pc # "init" /\ ~HasToken)
       => /\ pc = "exit"
          /\ requests = << >>
          /\ ExitNonZero
          /\ stderr # << >>

C4_Witness ==
    /\ environ = Some(<< >>)
    /\ secrets.lower = Some(<<" ", "l", "\n">>)
    /\ token = Some(<<"l">>)
    /\ requests # << >>

\* the first source, in the order environment, lowercase file, uppercase file, that
\* holds a non-empty value (a file's value is its stripped text)
FirstNonEmptySource ==
    IF environ # None /\ environ[1] # << >> THEN environ
    ELSE IF secrets.lower # None /\ strip(secrets.lower[1]) # << >>
         THEN Some(strip(secrets.lower[1]))
    ELSE IF secrets.upper # None /\ strip(secrets.upper[1]) # << >>
         THEN Some(strip(secrets.upper[1]))
    ELSE None

\* C5: the token is the value of the first source, in the order environment variable,
\* lowercase secret file, uppercase secret file, that holds a non-empty value, and the
\* process exits at startup only if none of the three does.
C5_FirstNonEmptySourceWins ==
    pc # "init"
    => IF FirstNonEmptySource # None
       THEN token = FirstNonEmptySource /\ raised # "SystemExit"
       ELSE pc = "exit" /\ ExitNonZero

\* the body of the request the called method sent
SentBody == requests[1].body[1]

\* C6 as stated: create_task and update_task put an optional field in the body if and
\* only if the caller supplied it, an empty value included.
C6_SuppliedIffPresent ==
    (requests # << >> /\ call.method \in {"create_task", "update_task"})
    => /\ "labels" \in DOMAIN SentBody <=> call.labels # None
       /\ "description" \in DOMAIN SentBody <=> call.description # None

\* C6 amended: update_task puts an optional field in the body if and only if the
\* caller supplied it (it is not None), an empty value included; create_task puts it in
\* the body if and only if it was supplied and is not empty.  A field in the body has
\* the value supplied.
C6_UpdateSuppliedCreateNonEmpty ==
    /\ (requests # << >> /\ call.method = "update_task")
       => /\ "labels" \in DOMAIN SentBody <=> call.labels # None
          /\ "description" \in DOMAIN SentBody <=> call.description # None
    /\ (requests # << >> /\ call.method = "create_task")
       => /\ "labels" \in DOMAIN SentBody
                <=> (call.labels # None /\ call.labels[1] # << >>)
          /\ "description" \in DOMAIN SentBody
                <=> (call.description # None /\ call.description[1] # << >>)
    /\ (requests # << >> /\ call.method \in {"create_task", "update_task"})
       => /\ "labels" \in DOMAIN SentBody => SentBody.labels = call.labels[1]
          /\ "description" \in DOMAIN SentBody => SentBody.description = call.description[1]

C6_Witness ==
    /\ call.method = "update_task"
    /\ call.labels = Some(<< >>)
    /\ call.description = None
    /\ requests # << >>
    /\ DOMAIN SentBody = {"labels"}
    /\ SentBody.labels = << >>

\* the input of create-batch is rejected or cannot be processed
BadBatchInput ==
    /\ args.command = "create-batch"
    /\ (PyNot(args.project) \/ PyNot(args.file) \/ payload.type # "array" \/ ~AllObjects)

\* C7 as stated: the exit code is non-zero exactly on a startup credential failure or
\* an unhandled request failure.
C7_NonZeroOnlyCredentialOrRequest ==
    pc = "exit" => (ExitNonZero <=> (~HasToken \/ SomeFailure))

\* C7 amended: the exit code is non-zero on a startup credential failure, on an
\* unhandled request failure and also on a create-batch input error (--project or
\* --file missing or empty, file unreadable or not a JSON array, element not a JSON
\* object); it is zero otherwise.
C7_NonZeroOnAnyError ==
    pc = "exit"
    => /\ exitCode # None
       /\ ExitNonZero <=> (~HasToken \/ SomeFailure \/ BadBatchInput)

C7_Witness ==
    /\ pc = "exit"
    /\ HasToken
    /\ args.command = "create-batch"
    /\ args.project = None
    /\ requests = << >>
    /\ exitCode = Some(1)

\* method and path of the one request of each single-request subcommand
OperationOf(cmd) ==
    CASE cmd = "list" -> <<"GET", "/tasks">>
      [] cmd = "create" -> <<"POST", "/tasks">>
      [] cmd = "update" -> <<"POST", "/tasks/{task_id}">>
      [] cmd = "delete" -> <<"DELETE", "/tasks/{task_id}">>
      [] cmd = "complete" -> <<"POST", "/tasks/{task_id}/close">>

\* C8: list, create, update, delete and complete issue exactly one HTTP request per
\* invocation; at most one request is in flight at any time; after a non-success
\* answer no further request is issued (no retry).
C8_OneRequestNoRetry ==
    /\ Len(requests) - Len(responses) \in {0, 1}
    /\ pc = "await" <=> Len(requests) = Len(responses) + 1
    /\ (pc = "exit" /\ HasToken /\ args.command # "create-batch")
       => /\ Len(requests) = 1
          /\ <<requests[1].method, requests[1].path>> = OperationOf(args.command)
    /\ SomeFailure
       => /\ Len(requests) = Len(responses)
          /\ \A i \in 1..(Len(responses) - 1) : ~IsFailure(responses[i])
          /\ pc = "exit"

C8_Witness ==
    /\ args.command = "update"
    /\ pc = "exit"
    /\ Len(requests) = 1
    /\ responses = <<500>>

\* C9: the request of the create subcommand has a body built from the flags: content,
\* project_id, description D when --description D (non-empty) is given, and labels
\* [a, b] when --labels a,b is given.
C9_CreateBodyFromFlags ==
    (args.command = "create" /\ requests # << >>)
    => /\ SentBody.content = args.content
       /\ SentBody.project_id = args.project
       /\ (args.description # None /\ args.description[1] # << >>)
          => /\ "description" \in DOMAIN SentBody
             /\ SentBody.description = args.description[1]
       /\ args.labels = Some(<<"a", ",", "b">>)
          => /\ "labels" \in DOMAIN SentBody
             /\ SentBody.labels = << <<"a">>, <<"b">> >>

\* what a successful run of the command prints
Printed ==
    CASE args.command \in {"list", "create", "update"} -> [json |-> ServerJson(1)]
      [] args.command = "delete" -> [line |-> <<"Deleted", args.id>>]
      [] args.command = "complete" -> [line |-> <<"Completed", args.id>>]
      [] args.command = "create-batch" ->
            [json |-> [i \in 1..Len(requests) |-> ServerJson(i)]]

\* C10: standard output is written only after the last request succeeded: whenever
\* it is not empty, every request issued was answered with a success status and the
\* process ended with what the command prints; in a run where a request failed, or
\* that ended in a credential or input validation error, it is empty.
C10_StdoutOnlyAfterSuccess ==
    /\ stdout # << >>
       => /\ pc = "exit"
          /\ Len(responses) = Len(requests)
          /\ ~SomeFailure
          /\ stdout = <<Printed>>
    /\ (SomeFailure \/ (pc # "init" /\ ~HasToken) \/ raised # "") => stdout = << >>

C10_Witness ==
    /\ args.command = "delete"
    /\ responses = <<200>>
    /\ stdout = << [line |-> <<"Deleted", Some(<<"7">>)>>] >>

====
